---- MODULE Spec2Model ----
(***************************************************************************)
(* Verification model of the SixSigmaMCP repository: the DMAIC phase       *)
(* workflow as implemented by                                              *)
(*   - mcp-server/six-sigma-server.js  (in-memory server, SpecJs)          *)
(*   - mcp-server/src/index.ts         (in-memory server with gates,       *)
(*                                      SpecTs)                            *)
(*   - QualityGateManager.evaluateGate (pure gate evaluation, SpecGate)    *)
(*   - the dashboard's React components over the database (SpecDash)       *)
(***************************************************************************)
EXTENDS Integers, Sequences, FiniteSets, TLC

VARIABLES
  projects,      \* six-sigma-server.js: this.projects (Map id -> project)
  projectState,  \* src/index.ts: this.projectState (Map id -> project)
  pending,       \* src/index.ts: handler invocations suspended at an await
  advanced,      \* src/index.ts: history of the calls that moved a project on
  gateProject,   \* part_016: the ProjectState handed to QualityGateManager
  gateEval,      \* part_016: the latest QualityGateResult for gateProject
  prevEval,      \* part_016: the result of the call before, same gate and artifacts
  clock,         \* part_016: the time new Date() reads
  dbProject,     \* dashboard: the row of the projects table
  dbCounts,      \* dashboard: rows in requirements, ctq_items, constraints, kpis
  fmea_items,    \* dashboard: the fmea_items table, id -> row
  solutions,     \* dashboard: ImprovePhase state, the rows of the solutions table
                 \* in the order the list shows them
  selectedProject, \* dashboard: App state, the project prop of ProjectDetails
  controlItems,  \* dashboard: ControlPhase state, the ticked checklist items
  repoFailure,   \* dashboard: the repository call that failed in the last handler
                 \* run, if any, and what the handler did about it
  lastCall       \* outcome of the most recent tool call / handler

(***************************************************************************)
(* Bounds                                                                  *)
(***************************************************************************)
MaxProjects == 1      \* distinct values Date.now() can take when naming a project

ProjectIds == 1..MaxProjects

NoProject == [exists |-> FALSE]

(***************************************************************************)
(* Phases                                                                  *)
(***************************************************************************)
DMAIC == <<"DEFINE", "MEASURE", "ANALYZE", "IMPROVE", "CONTROL">>

PhaseNames == {"DEFINE", "MEASURE", "ANALYZE", "IMPROVE", "CONTROL"}

\* the fixed order of the specification, COMPLETED last
PhaseOrder == <<"DEFINE", "MEASURE", "ANALYZE", "IMPROVE", "CONTROL", "COMPLETED">>

PhaseIndex(ph) == CHOOSE i \in 1..Len(PhaseOrder) : PhaseOrder[i] = ph

IsSuccessor(a, b) == PhaseIndex(b) = PhaseIndex(a) + 1

jsVars == <<projects>>

tsVars == <<projectState, pending, advanced>>

gateVars == <<gateProject, gateEval, prevEval, clock>>

dashVars == <<dbProject, dbCounts, fmea_items, solutions, selectedProject, controlItems,
              repoFailure>>

vars == <<projects, projectState, pending, advanced, gateProject, gateEval, prevEval,
          clock, dbProject, dbCounts, fmea_items, solutions, selectedProject,
          controlItems, repoFailure, lastCall>>

\* what the handlers of one program leave alone of the others
notJsVars == <<tsVars, gateVars, dashVars>>

notTsVars == <<jsVars, gateVars, dashVars>>

notGateVars == <<jsVars, tsVars, dashVars, lastCall>>

notDashVars == <<jsVars, tsVars, gateVars, lastCall>>

NoGate == [passed |-> FALSE, missing |-> {}, evaluated |-> FALSE]

Call(op, pid, ok, err) ==
  [op |-> op, pid |-> pid, ok |-> ok, err |-> err, gate |-> NoGate]

(***************************************************************************)
(* six-sigma-server.js                                                     *)
(***************************************************************************)
\* initializePhaseGates: the named criteria of each phase
phaseGates ==
  [ph \in PhaseNames |->
     CASE ph = "DEFINE"  -> {"voc_complete", "ctq_defined", "constraints_documented", "sipoc_created"}
       [] ph = "MEASURE" -> {"kpis_defined", "baseline_established", "measurement_system_validated"}
       [] ph = "ANALYZE" -> {"root_cause_identified", "fmea_complete", "statistical_analysis"}
       [] ph = "IMPROVE" -> {"solution_generated", "pilot_tested", "risk_mitigation"}
       [] ph = "CONTROL" -> {"control_plan", "monitoring_setup", "training_complete"}]

RECURSIVE SumSeq(_)
SumSeq(s) == IF s = <<>> THEN 0 ELSE Head(s) + SumSeq(Tail(s))

\* Math.round of the non-negative rational n/d (round half up)
RoundDiv(n, d) == (2 * n + d) \div (2 * d)

FailureMode(sev, occ, det, rpn) ==
  [severity |-> sev, occurrence |-> occ, detection |-> det, rpn |-> rpn]

\* conductFMEA: the canned failure modes, one more when depth is comprehensive
conductFMEA(depth) ==
  LET base == << FailureMode(9, 3, 2, 54), FailureMode(7, 5, 3, 105),
                 FailureMode(8, 2, 7, 112), FailureMode(6, 2, 2, 24) >>
      failureModes == IF depth = "comprehensive"
                        THEN Append(base, FailureMode(10, 1, 5, 50))
                        ELSE base
      totalRPN == SumSeq([i \in 1..Len(failureModes) |-> failureModes[i].rpn])
  IN [failure_modes |-> failureModes,
      total_rpn     |-> totalRPN,
      average_rpn   |-> RoundDiv(totalRPN, Len(failureModes))]

calculateRiskLevel(fmea) ==
  LET avgRPN == fmea.average_rpn
  IN IF avgRPN > 100 THEN "HIGH"
     ELSE IF avgRPN > 50 THEN "MEDIUM"
     ELSE "LOW"

\* totalGates counted over the criteria of DEFINE alone
TotalGates_mut == Cardinality(phaseGates["DEFINE"])

TotalGates == SumSeq([i \in 1..Len(DMAIC) |-> Cardinality(phaseGates[DMAIC[i]])])

MetGates(project) ==
  SumSeq([i \in 1..Len(DMAIC) |-> Cardinality(project.gate_criteria[DMAIC[i]])])

\* calculateQualityScore with the completion share left unweighted (x 1 for x 0.4)
calculateQualityScore_mut(project) ==
  LET riskScore == IF project.metrics.risk_level = "LOW" THEN 30
                   ELSE IF project.metrics.risk_level = "MEDIUM" THEN 20
                   ELSE 10
      num == project.metrics.phase_completion * 10 * TotalGates
             + MetGates(project) * 30 * 10
             + riskScore * 10 * TotalGates
  IN RoundDiv(num, 10 * TotalGates)

\* calculateQualityScore: Math.round(0.4*completion + met/total*30 + riskScore)
calculateQualityScore(project) ==
  LET riskScore == IF project.metrics.risk_level = "LOW" THEN 30
                   ELSE IF project.metrics.risk_level = "MEDIUM" THEN 20
                   ELSE 10
      \* score = pc*4/10 + met*30/total + riskScore, over the denominator 10*total
      num == project.metrics.phase_completion * 4 * TotalGates
             + MetGates(project) * 30 * 10
             + riskScore * 10 * TotalGates
  IN RoundDiv(num, 10 * TotalGates)

NewProject ==
  [exists        |-> TRUE,
   current_phase |-> "DEFINE",
   phase_status  |-> [ph \in PhaseNames |->
                        IF ph = "DEFINE" THEN "IN_PROGRESS" ELSE "NOT_STARTED"],
   artifacts     |-> [define |-> FALSE, measure |-> FALSE, analyze |-> "none",
                      improve |-> "none", control |-> FALSE],
   metrics       |-> [quality_score |-> 0, phase_completion |-> 0,
                      risk_level |-> "UNKNOWN"],
   gate_criteria |-> [ph \in PhaseNames |-> {}]]

\* createProject: the id is proj_<Date.now()>; Map.set replaces an entry of the same id
createProject(id) ==
  /\ projects' = [projects EXCEPT ![id] = NewProject]
  /\ lastCall' = Call("create_project", id, TRUE, "")
  /\ UNCHANGED notJsVars

Fail(op, pid, err) ==
  /\ lastCall' = Call(op, pid, FALSE, err)
  /\ UNCHANGED notJsVars
  /\ UNCHANGED projects

definePhase(pid) ==
  LET project == projects[pid] IN
  IF ~project.exists THEN Fail("define_phase", pid, "Project not found")
  ELSE IF project.current_phase # "DEFINE"
    THEN Fail("define_phase", pid, "Cannot execute Define phase")
  ELSE
    LET p1 == [project EXCEPT
                 !.artifacts.define = TRUE,
                 !.gate_criteria["DEFINE"] = phaseGates["DEFINE"],
                 !.metrics.phase_completion = 20]
        p2 == [p1 EXCEPT !.metrics.quality_score = calculateQualityScore(p1)]
    IN /\ projects' = [projects EXCEPT ![pid] = p2]
       /\ lastCall' = Call("define_phase", pid, TRUE, "")
       /\ UNCHANGED notJsVars

measurePhase(pid) ==
  LET project == projects[pid] IN
  IF ~project.exists THEN Fail("measure_phase", pid, "Project not found")
  ELSE IF project.current_phase # "DEFINE" /\ project.current_phase # "MEASURE"
    THEN Fail("measure_phase", pid, "Cannot execute Measure phase")
  ELSE IF ~project.artifacts.define
    \* project.artifacts.define.ctq_tree: TypeError on undefined, caught by the handler
    THEN Fail("measure_phase", pid, "TypeError")
  ELSE
    LET p1 == [project EXCEPT
                 !.artifacts.measure = TRUE,
                 !.current_phase = "ANALYZE",
                 !.phase_status["MEASURE"] = "COMPLETED",
                 !.phase_status["ANALYZE"] = "IN_PROGRESS",
                 !.metrics.phase_completion = 40]
        p2 == [p1 EXCEPT !.metrics.quality_score = calculateQualityScore(p1)]
    IN /\ projects' = [projects EXCEPT ![pid] = p2]
       /\ lastCall' = Call("measure_phase", pid, TRUE, "")
       /\ UNCHANGED notJsVars

analyzePhase(pid, depth) ==
  LET project == projects[pid] IN
  IF ~project.exists THEN Fail("analyze_phase", pid, "Project not found")
  ELSE
    LET fmea == conductFMEA(depth)
        p1 == [project EXCEPT
                 !.artifacts.analyze = depth,
                 !.current_phase = "IMPROVE",
                 !.phase_status["ANALYZE"] = "COMPLETED",
                 !.phase_status["IMPROVE"] = "IN_PROGRESS",
                 !.metrics.phase_completion = 60,
                 !.metrics.risk_level = calculateRiskLevel(fmea)]
    IN /\ projects' = [projects EXCEPT ![pid] = p1]
       /\ lastCall' = Call("analyze_phase", pid, TRUE, "")
       /\ UNCHANGED notJsVars

improvePhase(pid, approach) ==
  LET project == projects[pid] IN
  IF ~project.exists THEN Fail("improve_phase", pid, "Project not found")
  ELSE
    LET p1 == [project EXCEPT
                 !.artifacts.improve = approach,
                 !.current_phase = "CONTROL",
                 !.phase_status["IMPROVE"] = "COMPLETED",
                 !.phase_status["CONTROL"] = "IN_PROGRESS",
                 !.metrics.phase_completion = 80]
        p2 == [p1 EXCEPT !.metrics.quality_score = calculateQualityScore(p1)]
    IN /\ projects' = [projects EXCEPT ![pid] = p2]
       /\ lastCall' = Call("improve_phase", pid, TRUE, "")
       /\ UNCHANGED notJsVars

controlPhase(pid) ==
  LET project == projects[pid] IN
  IF ~project.exists THEN Fail("control_phase", pid, "Project not found")
  ELSE
    LET p1 == [project EXCEPT
                 !.artifacts.control = TRUE,
                 !.current_phase = "COMPLETED",
                 !.phase_status["CONTROL"] = "COMPLETED",
                 !.metrics.phase_completion = 100]
        p2 == [p1 EXCEPT !.metrics.quality_score = calculateQualityScore(p1)]
    IN /\ projects' = [projects EXCEPT ![pid] = p2]
       /\ lastCall' = Call("control_phase", pid, TRUE, "")
       /\ UNCHANGED notJsVars

\* the verdict checkPhaseGate computes for a project that is not COMPLETED
PhaseGateResult(project) ==
  LET currentPhase == project.current_phase
      criteriaStatus == project.gate_criteria[currentPhase]
      unmet == phaseGates[currentPhase] \ criteriaStatus
  IN [passed |-> unmet = {}, missing |-> unmet, evaluated |-> TRUE]

\* checkPhaseGate with a plausible slip: the check records the criteria as met
checkPhaseGate_mut(pid) ==
  LET project == projects[pid] IN
  IF ~project.exists THEN Fail("check_phase_gate", pid, "Project not found")
  ELSE IF project.current_phase = "COMPLETED"
    THEN /\ lastCall' = Call("check_phase_gate", pid, TRUE, "already completed")
         /\ UNCHANGED projects
         /\ UNCHANGED notJsVars
  ELSE /\ lastCall' = [Call("check_phase_gate", pid, TRUE, "")
                         EXCEPT !.gate = PhaseGateResult(project)]
       /\ projects' = [projects EXCEPT
                         ![pid].gate_criteria[project.current_phase] =
                            phaseGates[project.current_phase]]
       /\ UNCHANGED notJsVars

checkPhaseGate(pid) ==
  LET project == projects[pid] IN
  IF ~project.exists THEN Fail("check_phase_gate", pid, "Project not found")
  ELSE IF project.current_phase = "COMPLETED"
    THEN /\ lastCall' = Call("check_phase_gate", pid, TRUE, "already completed")
         /\ UNCHANGED projects
         /\ UNCHANGED notJsVars
  ELSE /\ lastCall' = [Call("check_phase_gate", pid, TRUE, "")
                         EXCEPT !.gate = PhaseGateResult(project)]
       /\ UNCHANGED projects
       /\ UNCHANGED notJsVars

getProjectStatus(pid) ==
  /\ lastCall' = Call("get_project_status", pid, projects[pid].exists,
                      IF projects[pid].exists THEN "" ELSE "Project not found")
  /\ UNCHANGED notJsVars
  /\ UNCHANGED projects

AnalysisDepths == {"basic", "standard", "comprehensive"}

SolutionApproaches == {"incremental", "redesign", "innovative"}

(***************************************************************************)
(* src/index.ts                                                            *)
(***************************************************************************)
MaxReqs == 2          \* length of a project's requirements list
MaxCallers == 2       \* tool calls that can be in flight at once

\* the index.ts server is studied with one project: ids never collide there
TsProjectIds == {1}

Callers == 1..MaxCallers

\* a requirement is represented by the keyword its text contains
\* ("functional": none of the keywords the analysis looks for)
ReqKinds == {"functional", "performance", "availability", "security"}

DeploymentTargets == {"Not specified", "AWS"}

RECURSIVE SeqsUpTo(_, _)
SeqsUpTo(S, n) ==
  IF n = 0 THEN {<<>>}
  ELSE LET shorter == SeqsUpTo(S, n - 1)
       IN shorter \cup {Append(q, x) : q \in {r \in shorter : Len(r) = n - 1}, x \in S}

\* Math.ceil(len * 0.4)
CeilFourTenths(len) == (4 * len + 9) \div 10

IsFunctional(kind) == kind = "functional"

performVOCAnalysis(requirements) ==
  [functional_requirements     |-> SelectSeq(requirements, IsFunctional),
   non_functional_requirements |-> SelectSeq(requirements, LAMBDA k : ~IsFunctional(k)),
   must_have |-> Cardinality({i \in 1..Len(requirements) :
                                 i - 1 < CeilFourTenths(Len(requirements))})]

generateCTQTree(vocAnalysis) ==
  LET nf == vocAnalysis.non_functional_requirements
      has(kind) == \E i \in 1..Len(nf) : nf[i] = kind
  IN [performance |-> IF has("performance") THEN 3 ELSE 0,
      reliability |-> IF has("availability") THEN 3 ELSE 0,
      usability   |-> IF Len(vocAnalysis.functional_requirements) > 0 THEN 3 ELSE 0,
      security    |-> IF has("security") THEN 3 ELSE 0]

NoArtifacts == [present |-> FALSE]

DefineArtifactsOf(project) ==
  LET vocAnalysis == performVOCAnalysis(project.requirements)
  IN [present       |-> TRUE,
      voc_analysis  |-> vocAnalysis,
      ctq_tree      |-> generateCTQTree(vocAnalysis),
      constraints   |-> [deployment |-> project.deployment_target],
      sipoc_diagram |-> [process_steps |-> 6]]

\* a gate that passes on a weighted threshold: four criteria in five suffice
Gate_mut(names, results) ==
  [evaluated |-> TRUE,
   passed    |-> Cardinality({i \in 1..Len(names) : results[i]}) * 100 >= 80 * Len(names),
   missing   |-> {names[i] : i \in {j \in 1..Len(names) : ~results[j]}}]

\* the criteria of a gate, in the order the code lists them, with their outcomes
Gate(names, results) ==
  [evaluated |-> TRUE,
   passed    |-> \A i \in 1..Len(names) : results[i],
   missing   |-> {names[i] : i \in {j \in 1..Len(names) : ~results[j]}}]

DefineCriteria ==
  <<"VOC Analysis Complete", "CTQ Tree Defined", "Constraints Documented",
    "SIPOC Diagram Created", "Priority Matrix Defined">>

DefineCriteriaResults(artifacts) ==
  << Len(artifacts.voc_analysis.functional_requirements) > 0,
     artifacts.ctq_tree.performance > 0 \/ artifacts.ctq_tree.reliability > 0,
     artifacts.constraints.deployment # "Not specified",
     artifacts.sipoc_diagram.process_steps > 0,
     artifacts.voc_analysis.must_have > 0 >>

checkDefinePhaseQualityGate(artifacts) ==
  Gate(DefineCriteria, DefineCriteriaResults(artifacts))

Repeat(x, n) == [i \in 1..n |-> x]

\* defineKPIs: one KPI per CTQ metric, category by category (no custom KPIs)
defineKPIs(ctqTree) ==
  Repeat("Performance", ctqTree.performance) \o Repeat("Reliability", ctqTree.reliability)
    \o Repeat("Usability", ctqTree.usability) \o Repeat("Security", ctqTree.security)

MeasureCriteria ==
  <<"KPIs Defined", "Baselines Established", "MSA Acceptable",
    "Data Collection Plan", "Measurement Frequency Defined">>

\* baselines, the data-collection plan and its frequencies have one entry per KPI;
\* performMSA always yields repeatability >= 0.95 and reproducibility >= 0.93
checkMeasurePhaseQualityGate(artifacts) ==
  Gate(MeasureCriteria,
       << Len(artifacts.kpis) > 0, Len(artifacts.kpis) > 0, TRUE,
          Len(artifacts.kpis) > 0, Len(artifacts.kpis) > 0 >>)

AnalyzeCriteria ==
  <<"Root Causes Identified", "FMEA Complete", "High Risk Items Addressed",
    "Statistical Analysis Done", "Process Capability Assessed">>

\* five critical Xs, four FMEA items each with recommended actions, one hypothesis
\* test per KPI, sigma level in 1..6
checkAnalyzePhaseQualityGate(artifacts) ==
  Gate(AnalyzeCriteria, << TRUE, TRUE, TRUE, artifacts.hypothesis_tests > 0, TRUE >>)

\* simulatePilotResults: the first five baselines are scaled by the improvement the
\* first solution (sol_risk_mitigation) declares: only Reliability metrics improve
simulatePilotResults(measure) ==
  LET firstFive == SubSeq(measure.kpis, 1, IF Len(measure.kpis) < 5 THEN Len(measure.kpis) ELSE 5)
  IN [success |-> \E i \in 1..Len(firstFive) : firstFive[i] = "Reliability"]

ImproveCriteria ==
  <<"Solutions Proposed", "Pilot Successful", "Implementation Plan Ready",
    "Rollback Strategy Defined", "Poka-Yoke Implemented">>

checkImprovePhaseQualityGate(artifacts) ==
  Gate(ImproveCriteria, << TRUE, artifacts.pilot_results.success, TRUE, TRUE, TRUE >>)

ControlCriteria ==
  <<"Control Plan Defined", "Monitoring Active", "Documentation Complete",
    "Training Materials Ready", "Response Plans Defined", "Deployment Validated">>

checkControlPhaseQualityGate(artifacts, deploymentValid) ==
  Gate(ControlCriteria,
       << artifacts.control_items > 0, artifacts.key_metrics > 0, TRUE, TRUE, TRUE,
          deploymentValid >>)

TsNewProject(requirements, target) ==
  [exists            |-> TRUE,
   requirements      |-> requirements,
   deployment_target |-> target,
   current_phase     |-> "DEFINE",
   artifacts         |-> [define |-> NoArtifacts, measure |-> NoArtifacts,
                          analyze |-> NoArtifacts, improve |-> NoArtifacts,
                          control |-> NoArtifacts],
   quality_gates     |-> [define |-> NoGate, measure |-> NoGate, analyze |-> NoGate,
                          improve |-> NoGate, control |-> NoGate]]

TsFail(op, pid, err) ==
  /\ lastCall' = Call(op, pid, FALSE, err)
  /\ UNCHANGED notTsVars
  /\ UNCHANGED <<projectState, pending, advanced>>

\* the id carries Date.now() and a random suffix: a new project takes a free slot
tsCreateProject(id, requirements, target) ==
  /\ ~projectState[id].exists
  /\ projectState' = [projectState EXCEPT ![id] = TsNewProject(requirements, target)]
  /\ lastCall' = Call("create_project", id, TRUE, "")
  /\ UNCHANGED notTsVars
  /\ UNCHANGED <<pending, advanced>>

\* the body of a phase handler from the store of the artifacts to the return
TsCommit(op, pid, caller, from, key, artifacts, qualityGate, next) ==
  LET project == projectState[pid]
      p1 == [project EXCEPT !.artifacts[key] = artifacts,
                            !.quality_gates[key] = qualityGate]
      p2 == IF qualityGate.passed THEN [p1 EXCEPT !.current_phase = next] ELSE p1
  IN /\ projectState' = [projectState EXCEPT ![pid] = p2]
     /\ advanced' = IF qualityGate.passed
                      THEN advanced \cup {[pid |-> pid, caller |-> caller, from |-> from]}
                      ELSE advanced
     /\ lastCall' = [Call(op, pid, TRUE, "") EXCEPT !.gate = qualityGate]
     /\ UNCHANGED notTsVars

tsDefinePhase(pid, caller) ==
  LET project == projectState[pid] IN
  IF ~project.exists THEN TsFail("define_phase", pid, "Project not found")
  ELSE IF project.current_phase # "DEFINE"
    THEN TsFail("define_phase", pid, "Expected DEFINE phase")
  ELSE
    LET defineArtifacts == DefineArtifactsOf(project)
    IN /\ TsCommit("define_phase", pid, caller, "DEFINE", "define", defineArtifacts,
                   checkDefinePhaseQualityGate(defineArtifacts), "MEASURE")
       /\ UNCHANGED pending

tsMeasurePhase(pid, caller) ==
  LET project == projectState[pid] IN
  IF ~project.exists THEN TsFail("measure_phase", pid, "Project not found")
  ELSE IF project.current_phase # "MEASURE"
    THEN TsFail("measure_phase", pid, "Expected MEASURE phase")
  ELSE IF ~project.artifacts.define.present
    THEN TsFail("measure_phase", pid, "CTQ tree not found")
  ELSE
    LET measureArtifacts == [present |-> TRUE,
                             kpis |-> defineKPIs(project.artifacts.define.ctq_tree)]
    IN /\ TsCommit("measure_phase", pid, caller, "MEASURE", "measure", measureArtifacts,
                   checkMeasurePhaseQualityGate(measureArtifacts), "ANALYZE")
       /\ UNCHANGED pending

tsAnalyzePhase(pid, caller) ==
  LET project == projectState[pid] IN
  IF ~project.exists THEN TsFail("analyze_phase", pid, "Project not found")
  ELSE IF project.current_phase # "ANALYZE"
    THEN TsFail("analyze_phase", pid, "Expected ANALYZE phase")
  ELSE IF ~project.artifacts.measure.present
    THEN TsFail("analyze_phase", pid, "Measure phase artifacts not found")
  ELSE
    LET analyzeArtifacts == [present |-> TRUE,
                             hypothesis_tests |-> Len(project.artifacts.measure.kpis)]
    IN /\ TsCommit("analyze_phase", pid, caller, "ANALYZE", "analyze", analyzeArtifacts,
                   checkAnalyzePhaseQualityGate(analyzeArtifacts), "IMPROVE")
       /\ UNCHANGED pending

\* improvePhase up to its first await (generateSolutions): the phase is checked here
tsImprovePhaseBegin(pid, caller) ==
  LET project == projectState[pid] IN
  /\ \A c \in pending : c.caller # caller
  /\ IF ~project.exists THEN TsFail("improve_phase", pid, "Project not found")
     ELSE IF project.current_phase # "IMPROVE"
       THEN TsFail("improve_phase", pid, "Expected IMPROVE phase")
     ELSE IF ~project.artifacts.analyze.present
       \* generateSolutions throws before it suspends; the await rethrows
       THEN TsFail("improve_phase", pid, "Analyze phase artifacts not found")
     ELSE /\ pending' = pending \cup {[op |-> "improve_phase", pid |-> pid, caller |-> caller,
                                       deploymentValid |-> TRUE]}
          /\ lastCall' = Call("improve_phase_await", pid, TRUE, "")
          /\ UNCHANGED notTsVars
          /\ UNCHANGED <<projectState, advanced>>

\* improvePhase after the await: the phase is not read again
tsImprovePhaseResume(c) ==
  LET project == projectState[c.pid] IN
  /\ c \in pending /\ c.op = "improve_phase"
  /\ pending' = pending \ {c}
  /\ LET improveArtifacts ==
           [present |-> TRUE,
            pilot_results |-> simulatePilotResults(project.artifacts.measure)]
     IN TsCommit("improve_phase", c.pid, c.caller, "IMPROVE", "improve",
                 improveArtifacts, checkImprovePhaseQualityGate(improveArtifacts),
                 "CONTROL")

TsControlCommit(pid, caller, deploymentValid) ==
  LET project == projectState[pid]
      kpis == project.artifacts.measure.kpis
      controlArtifacts == [present |-> TRUE, control_items |-> Len(kpis),
                           key_metrics |-> Len(kpis)]
  IN TsCommit("control_phase", pid, caller, "CONTROL", "control", controlArtifacts,
              checkControlPhaseQualityGate(controlArtifacts, deploymentValid), "NONE")

\* controlPhase up to "await this.validateDeployment(...)", or to its end when no
\* deployment_url is given
tsControlPhaseBegin(pid, caller, withUrl, deploymentValid) ==
  LET project == projectState[pid] IN
  /\ \A c \in pending : c.caller # caller
  /\ IF ~project.exists THEN TsFail("control_phase", pid, "Project not found")
     ELSE IF project.current_phase # "CONTROL"
       THEN TsFail("control_phase", pid, "Expected CONTROL phase")
     ELSE IF ~project.artifacts.improve.present \/ ~project.artifacts.measure.present
       THEN TsFail("control_phase", pid, "Previous phase artifacts not found")
     ELSE IF withUrl
       THEN /\ pending' = pending \cup {[op |-> "control_phase", pid |-> pid,
                                         caller |-> caller,
                                         deploymentValid |-> deploymentValid]}
            /\ lastCall' = Call("control_phase_await", pid, TRUE, "")
            /\ UNCHANGED notTsVars
            /\ UNCHANGED <<projectState, advanced>>
     ELSE /\ TsControlCommit(pid, caller, TRUE)
          /\ UNCHANGED pending

\* controlPhase after validateDeployment resolved (Math.random() decides its value)
tsControlPhaseResume(c) ==
  /\ c \in pending /\ c.op = "control_phase"
  /\ pending' = pending \ {c}
  /\ TsControlCommit(c.pid, c.caller, c.deploymentValid)

tsGetProjectStatus(pid) ==
  /\ lastCall' = Call("get_project_status", pid, projectState[pid].exists,
                      IF projectState[pid].exists THEN "" ELSE "Project not found")
  /\ UNCHANGED notTsVars
  /\ UNCHANGED <<projectState, pending, advanced>>

(***************************************************************************)
(* QualityGateManager (unnamed/part_016)                                   *)
(***************************************************************************)
MaxKpis == 1          \* length of the KPI list of the measure artifacts
MaxClock == 2         \* milliseconds the clock can advance

\* an array is empty or not; a string is empty (FALSE) or not (TRUE)
ItemCounts == {0, 1}

GatePhases == {"DEFINE", "MEASURE", "ANALYZE", "IMPROVE", "CONTROL", "COMPLETE"}

\* initializeGateCriteria: gate key -> the names of its criteria, in order
gatesCriteria ==
  [DEFINE_TO_MEASURE   |-> <<"VOC_COMPLETE", "CTQ_DEFINED", "CONSTRAINTS_DOCUMENTED",
                             "PROJECT_CHARTER_APPROVED">>,
   MEASURE_TO_ANALYZE  |-> <<"KPIS_DEFINED", "BASELINES_ESTABLISHED",
                             "MEASUREMENT_PLAN_COMPLETE">>,
   ANALYZE_TO_IMPROVE  |-> <<"ROOT_CAUSES_IDENTIFIED", "FMEA_COMPLETE",
                             "PROCESS_INEFFICIENCIES_MAPPED">>,
   IMPROVE_TO_CONTROL  |-> <<"SOLUTION_VALIDATED", "PILOT_SUCCESSFUL",
                             "IMPLEMENTATION_PLAN_READY">>,
   CONTROL_TO_COMPLETE |-> <<"CONTROL_PLAN_ACTIVE", "MONITORING_OPERATIONAL",
                             "TRAINING_COMPLETE", "METRICS_STABLE">>]

\* `${fromPhase}_TO_${toPhase}`
GateKey(fromPhase, toPhase) ==
  CASE fromPhase = "DEFINE"  /\ toPhase = "MEASURE"  -> "DEFINE_TO_MEASURE"
    [] fromPhase = "MEASURE" /\ toPhase = "ANALYZE"  -> "MEASURE_TO_ANALYZE"
    [] fromPhase = "ANALYZE" /\ toPhase = "IMPROVE"  -> "ANALYZE_TO_IMPROVE"
    [] fromPhase = "IMPROVE" /\ toPhase = "CONTROL"  -> "IMPROVE_TO_CONTROL"
    [] fromPhase = "CONTROL" /\ toPhase = "COMPLETE" -> "CONTROL_TO_COMPLETE"
    [] OTHER -> "undefined"

\* VOCAnalysis: the priority matrix ranks the customer needs, so it is empty
\* when they are
VocValues ==
  {[customer_needs |-> 0, must_have |-> 0], [customer_needs |-> 1, must_have |-> 0],
   [customer_needs |-> 1, must_have |-> 1]}

\* ProjectCharter: complete, or lacking one of the three parts the validator reads
CharterValues ==
  {[problem_statement |-> TRUE,  goal_statement |-> TRUE,  deliverables |-> 1],
   [problem_statement |-> FALSE, goal_statement |-> TRUE,  deliverables |-> 1],
   [problem_statement |-> TRUE,  goal_statement |-> FALSE, deliverables |-> 1],
   [problem_statement |-> TRUE,  goal_statement |-> TRUE,  deliverables |-> 0]}

\* DefineArtifacts: what the validators read of it
DefineArtifactValues ==
  [defined         : {TRUE},
   voc_analysis    : VocValues,
   ctq_tree        : SeqsUpTo(ItemCounts, 1),   \* metrics per customer need
   constraints     : {{"technical", "deployment"}, {"technical", "deployment", "budget"}},
   project_charter : CharterValues]

NoDefineArtifacts ==
  [defined         |-> FALSE,
   voc_analysis    |-> [customer_needs |-> 0, must_have |-> 0],
   ctq_tree        |-> <<>>,
   constraints     |-> {},
   project_charter |-> [problem_statement |-> FALSE, goal_statement |-> FALSE,
                        deliverables |-> 0]]

\* MeasureArtifacts: per KPI, whether its target is defined
MeasureArtifactValues == [defined : {TRUE}, kpis : SeqsUpTo(BOOLEAN, MaxKpis)]

NoMeasureArtifacts == [defined |-> FALSE, kpis |-> <<>>]

validateVOCComplete(project) ==
  LET define == project.artifacts.define
  IN /\ define.defined
     /\ define.voc_analysis.customer_needs > 0
     /\ define.voc_analysis.must_have > 0

validateCTQDefined(project) ==
  LET define  == project.artifacts.define
      hasCTQ  == define.defined /\ Len(define.ctq_tree) > 0
      metricsCount == IF hasCTQ THEN SumSeq(define.ctq_tree) ELSE 0
  IN hasCTQ /\ metricsCount > 0

validateConstraintsDocumented(project) ==
  LET define == project.artifacts.define
  IN /\ define.defined
     /\ "technical" \in define.constraints
     /\ "deployment" \in define.constraints
     /\ "budget" \in define.constraints

validateProjectCharter(project) ==
  LET define == project.artifacts.define
  IN /\ define.defined
     /\ define.project_charter.problem_statement
     /\ define.project_charter.goal_statement
     /\ define.project_charter.deliverables > 0

validateKPIsDefined(project) ==
  LET measure  == project.artifacts.measure
      kpiCount == IF measure.defined THEN Len(measure.kpis) ELSE 0
  IN kpiCount > 0 /\ \A i \in 1..Len(measure.kpis) : measure.kpis[i]

\* createPlaceholderResult(criterion, true)
createPlaceholderResult(passed) == passed

\* criterion.validator(project).passed, by criterion name
Validator(name, project) ==
  CASE name = "VOC_COMPLETE"             -> validateVOCComplete(project)
    [] name = "CTQ_DEFINED"              -> validateCTQDefined(project)
    [] name = "CONSTRAINTS_DOCUMENTED"   -> validateConstraintsDocumented(project)
    [] name = "PROJECT_CHARTER_APPROVED" -> validateProjectCharter(project)
    [] name = "KPIS_DEFINED"             -> validateKPIsDefined(project)
    [] OTHER                             -> createPlaceholderResult(TRUE)

\* the for-loop of evaluateGate: one CriteriaResult per criterion
CriteriaResults(criteria, project) ==
  [i \in 1..Len(criteria) |->
     [criterion |-> criteria[i], passed |-> Validator(criteria[i], project)]]

PassedCount(criteriaResults) ==
  Cardinality({i \in 1..Len(criteriaResults) : criteriaResults[i].passed})

NoEval ==
  [key |-> "none", passed |-> FALSE, evaluation_date |-> 0, criteria_results |-> <<>>,
   overall_score |-> <<0, 1>>, passed_count |-> 0]

\* the QualityGateResult with the threshold at 70% of the criteria
QualityGateResult_mut(gateKey, criteriaResults, passedCount, now) ==
  [key              |-> gateKey,
   passed           |-> passedCount * 100 >= 70 * Len(criteriaResults),
   evaluation_date  |-> now,
   criteria_results |-> criteriaResults,
   overall_score    |-> <<passedCount * 100, Len(criteriaResults)>>,
   passed_count     |-> passedCount]

\* the QualityGateResult evaluateGate returns; overall_score is the exact
\* quotient passedCount * 100 / criteria.length, kept as numerator and denominator;
\* passed_count is the count the notes text quotes
QualityGateResult(gateKey, criteriaResults, passedCount, now) ==
  [key              |-> gateKey,
   passed           |-> passedCount * 100 >= 80 * Len(criteriaResults),
   evaluation_date  |-> now,
   criteria_results |-> criteriaResults,
   overall_score    |-> <<passedCount * 100, Len(criteriaResults)>>,
   passed_count     |-> passedCount]

\* evaluateGate whose passedCount outlives the call
evaluateGate_mut(fromPhase, toPhase) ==
  LET gateKey == GateKey(fromPhase, toPhase) IN
  IF gateKey = "undefined"
  THEN UNCHANGED vars
  ELSE LET criteriaResults == CriteriaResults(gatesCriteria[gateKey], gateProject)
           passedCount == gateEval.passed_count + PassedCount(criteriaResults)
       IN /\ gateEval' = QualityGateResult(gateKey, criteriaResults, passedCount, clock)
          /\ prevEval' = IF gateEval.key = gateKey THEN gateEval ELSE NoEval
          /\ UNCHANGED <<gateProject, clock>>
          /\ UNCHANGED notGateVars

\* evaluateGate(project, fromPhase, toPhase); an unknown gate key throws
evaluateGate(fromPhase, toPhase) ==
  LET gateKey == GateKey(fromPhase, toPhase) IN
  IF gateKey = "undefined"
  THEN UNCHANGED vars
  ELSE LET criteriaResults == CriteriaResults(gatesCriteria[gateKey], gateProject)
           passedCount == PassedCount(criteriaResults)
       IN /\ gateEval' = QualityGateResult(gateKey, criteriaResults, passedCount, clock)
          /\ prevEval' = IF gateEval.key = gateKey THEN gateEval ELSE NoEval
          /\ UNCHANGED <<gateProject, clock>>
          /\ UNCHANGED notGateVars

\* a phase stores its artifacts on the project; earlier gate results no longer
\* describe the project
setDefineArtifacts(define) ==
  /\ gateProject' = [gateProject EXCEPT !.artifacts.define = define]
  /\ gateEval' = NoEval
  /\ prevEval' = NoEval
  /\ UNCHANGED clock
  /\ UNCHANGED notGateVars

setMeasureArtifacts(measure) ==
  /\ gateProject' = [gateProject EXCEPT !.artifacts.measure = measure]
  /\ gateEval' = NoEval
  /\ prevEval' = NoEval
  /\ UNCHANGED clock
  /\ UNCHANGED notGateVars

\* time passes between calls (new Date())
Tick ==
  /\ clock < MaxClock
  /\ clock' = clock + 1
  /\ UNCHANGED <<gateProject, gateEval, prevEval>>
  /\ UNCHANGED notGateVars

(***************************************************************************)
(* The dashboard: React components over the relational store               *)
(* (supabase/migrations, ProjectDetails, CreateProject, phases/*.tsx),      *)
(* one browser session on one project                                      *)
(***************************************************************************)
MaxFmeaItems == 2     \* rows of fmea_items a project can hold

FmeaIds == 1..MaxFmeaItems

MaxSolutions == 2     \* rows of solutions a project can hold

SolutionIds == 1..MaxSolutions

\* rows the session can hold in requirements, ctq_items, constraints and kpis
TableCaps == [requirements |-> 3, ctq_items |-> 2, constraints |-> 1, kpis |-> 3]

\* values typed into the severity, occurrence and detection inputs
SeverityInputs == {0, 3, 5, 10}

OccurrenceInputs == {10, 11}

DetectionInputs == {5}

\* values typed into the four score inputs of a new solution; the form starts
\* at 5, 5, 5, 5
SolutionInputs ==
  {[impact_score |-> 5,  effort_score |-> 5, risk_score |-> 5, cost_score |-> 5],
   [impact_score |-> 8,  effort_score |-> 4, risk_score |-> 3, cost_score |-> 3],
   [impact_score |-> 11, effort_score |-> 5, risk_score |-> 5, cost_score |-> 5]}

\* statuses the session sets through updateStatus; canComplete treats
\* implemented exactly as it treats approved
SolutionStatuses == {"proposed", "approved"}

ControlItemNames == {"monitoring", "documentation", "validation", "training"}

NoRow == [exists |-> FALSE]

\* the repository calls of the last handler run all succeeded
NoFailure == [call |-> "none", reported |-> FALSE, onSuccess |-> FALSE]

\* a repository call of the handler failed: whether the handler showed the
\* failure to the user, and whether it went on to its success callback
Failure(call, reported, onSuccess) ==
  [call |-> call, reported |-> reported, onSuccess |-> onSuccess]

\* the repository calls of CreateProject.handleSubmit that can fail
SubmitFailures == {"none", "projects.insert", "requirements.insert"}

NoFmea == [exists |-> FALSE, severity |-> 0, occurrence |-> 0, detection |-> 0, rpn |-> 0]

\* projects table: the column defaults of an inserted row
ProjectRow ==
  [exists |-> TRUE, current_phase |-> "DEFINE", quality_score |-> 0,
   risk_level |-> "LOW", phase_completion |-> 0]

\* fmea_items table: the CHECK constraints of a row
FmeaChecks(severity, occurrence, detection) ==
  /\ severity >= 1 /\ severity <= 10
  /\ occurrence >= 1 /\ occurrence <= 10
  /\ detection >= 1 /\ detection <= 10

\* fmea_items.rpn with the wrong generation expression
FmeaRow_mut(severity, occurrence, detection) ==
  [exists |-> TRUE, severity |-> severity, occurrence |-> occurrence,
   detection |-> detection, rpn |-> severity * occurrence + detection]

\* fmea_items table: rpn GENERATED ALWAYS AS (severity * occurrence * detection)
FmeaRow(severity, occurrence, detection) ==
  [exists |-> TRUE, severity |-> severity, occurrence |-> occurrence,
   detection |-> detection, rpn |-> severity * occurrence * detection]

\* the rows of a table held as id -> row
RowsOf(table) == {table[id] : id \in {i \in DOMAIN table : table[i].exists}}

RowCount(table) == Cardinality({i \in DOMAIN table : table[i].exists})

SumRpn(table) ==
  LET ids == {i \in DOMAIN table : table[i].exists}
      Sum[S \in SUBSET ids] ==
        IF S = {} THEN 0
        ELSE LET i == CHOOSE j \in S : TRUE IN table[i].rpn + Sum[S \ {i}]
  IN Sum[ids]

\* ProjectDetails renders the component of the phase of its project prop
Mounted(phase) == selectedProject.exists /\ selectedProject.current_phase = phase

\* handleProjectUpdated: the project prop is read again from the store
Refreshed(row) == row

\* CreateProject.handleSubmit: the project row and its non-empty requirement
\* lines. A failed insert of the project is logged with console.error and the
\* handler returns; the result of the insert of the requirements is not read
\* and onSuccess is called
dashCreateProject(requirementLines, failure) ==
  /\ ~dbProject.exists
  /\ IF failure = "projects.insert"
       THEN /\ UNCHANGED <<dbProject, dbCounts>>
            /\ repoFailure' = Failure("projects.insert", FALSE, FALSE)
     ELSE IF failure = "requirements.insert" /\ requirementLines > 0
       THEN /\ dbProject' = ProjectRow
            /\ UNCHANGED dbCounts
            /\ repoFailure' = Failure("requirements.insert", FALSE, TRUE)
     ELSE /\ dbProject' = ProjectRow
          /\ dbCounts' = [dbCounts EXCEPT !.requirements = requirementLines]
          /\ repoFailure' = NoFailure
  /\ UNCHANGED <<fmea_items, solutions, selectedProject, controlItems>>
  /\ UNCHANGED notDashVars

\* ProjectList: onSelectProject
selectProject ==
  /\ dbProject.exists
  /\ selectedProject' = dbProject
  /\ UNCHANGED <<dbProject, dbCounts, fmea_items, solutions, controlItems>>
  /\ repoFailure' = NoFailure
  /\ UNCHANGED notDashVars

\* DefinePhase.addRequirement / addCTQ / addConstraint, MeasurePhase.addKpi
addItem(phase, table) ==
  /\ Mounted(phase)
  /\ dbCounts[table] < TableCaps[table]
  /\ dbCounts' = [dbCounts EXCEPT ![table] = @ + 1]
  /\ UNCHANGED <<dbProject, fmea_items, solutions, selectedProject, controlItems>>
  /\ repoFailure' = NoFailure
  /\ UNCHANGED notDashVars

\* DefinePhase.deleteRequirement / deleteCtq / deleteConstraint, MeasurePhase.deleteKpi
deleteItem(phase, table) ==
  /\ Mounted(phase)
  /\ dbCounts[table] > 0
  /\ dbCounts' = [dbCounts EXCEPT ![table] = @ - 1]
  /\ UNCHANGED <<dbProject, fmea_items, solutions, selectedProject, controlItems>>
  /\ repoFailure' = NoFailure
  /\ UNCHANGED notDashVars

addRequirement == addItem("DEFINE", "requirements")

addCTQ == addItem("DEFINE", "ctq_items")

addConstraint == addItem("DEFINE", "constraints")

deleteRequirement == deleteItem("DEFINE", "requirements")

deleteCtq == deleteItem("DEFINE", "ctq_items")

deleteConstraint == deleteItem("DEFINE", "constraints")

addKpi == addItem("MEASURE", "kpis")

deleteKpi == deleteItem("MEASURE", "kpis")

\* updateProjectRisk: avgRpn = sum / (length || 1) against 300 and 150
RiskLevelOf(fmeaItems) ==
  LET length  == RowCount(fmeaItems)
      divisor == IF length = 0 THEN 1 ELSE length
      sum     == SumRpn(fmeaItems)
  IN IF sum > 300 * divisor THEN "HIGH"
     ELSE IF sum > 150 * divisor THEN "MEDIUM"
     ELSE "LOW"

\* AnalyzePhase.addFmea: the insert, then updateProjectRisk over the fmeaItems
\* the handler was rendered with
addFmea(severity, occurrence, detection) ==
  /\ Mounted("ANALYZE")
  /\ \E id \in FmeaIds : ~fmea_items[id].exists
  /\ LET fmeaItems == fmea_items
         id == CHOOSE i \in FmeaIds : ~fmea_items[i].exists
     IN /\ fmea_items' = IF FmeaChecks(severity, occurrence, detection)
                           THEN [fmea_items EXCEPT
                                   ![id] = FmeaRow(severity, occurrence, detection)]
                           ELSE fmea_items
        /\ dbProject' = [dbProject EXCEPT !.risk_level = RiskLevelOf(fmeaItems)]
  /\ UNCHANGED <<dbCounts, solutions, selectedProject, controlItems>>
  /\ repoFailure' = NoFailure
  /\ UNCHANGED notDashVars

\* AnalyzePhase.deleteFmea
deleteFmea(id) ==
  /\ Mounted("ANALYZE")
  /\ fmea_items[id].exists
  /\ LET fmeaItems == fmea_items
     IN /\ fmea_items' = [fmea_items EXCEPT ![id] = NoFmea]
        /\ dbProject' = [dbProject EXCEPT !.risk_level = RiskLevelOf(fmeaItems)]
  /\ UNCHANGED <<dbCounts, solutions, selectedProject, controlItems>>
  /\ repoFailure' = NoFailure
  /\ UNCHANGED notDashVars

\* solutions table: the CHECK constraints of a row
SolutionChecks(newSolution) ==
  /\ newSolution.impact_score >= 0 /\ newSolution.impact_score <= 10
  /\ newSolution.effort_score >= 0 /\ newSolution.effort_score <= 10
  /\ newSolution.risk_score >= 0 /\ newSolution.risk_score <= 10
  /\ newSolution.cost_score >= 0 /\ newSolution.cost_score <= 10

\* calculateTotalScore with the impact counted once
calculateTotalScore_mut(newSolution) ==
  newSolution.impact_score - newSolution.effort_score
    - newSolution.risk_score - newSolution.cost_score

\* ImprovePhase.calculateTotalScore
calculateTotalScore(newSolution) ==
  (newSolution.impact_score * 2) - newSolution.effort_score
    - newSolution.risk_score - newSolution.cost_score

\* the row the insert returns: status defaults to proposed
SolutionRow(id, newSolution, total_score) ==
  [id |-> id,
   impact_score |-> newSolution.impact_score, effort_score |-> newSolution.effort_score,
   risk_score |-> newSolution.risk_score, cost_score |-> newSolution.cost_score,
   total_score |-> total_score, status |-> "proposed"]

\* the sort with the comparator reversed (a.total_score - b.total_score)
SortByTotalScore_mut(list) ==
  LET n == Len(list)
      rank(i) == 1 + Cardinality({j \in 1..n :
                       \/ list[j].total_score < list[i].total_score
                       \/ list[j].total_score = list[i].total_score /\ j < i})
  IN [k \in 1..n |-> list[CHOOSE i \in 1..n : rank(i) = k]]

\* list.sort((a, b) => b.total_score - a.total_score): descending by score;
\* Array.prototype.sort is stable, so rows of equal score keep their order
SortByTotalScore(list) ==
  LET n == Len(list)
      rank(i) == 1 + Cardinality({j \in 1..n :
                       \/ list[j].total_score > list[i].total_score
                       \/ list[j].total_score = list[i].total_score /\ j < i})
  IN [k \in 1..n |-> list[CHOOSE i \in 1..n : rank(i) = k]]

\* ImprovePhase.addSolution: the insert, then the returned row appended and the
\* list sorted; a row the table rejects returns no data and leaves the list alone
addSolution(newSolution) ==
  /\ Mounted("IMPROVE")
  /\ Len(solutions) < MaxSolutions
  /\ LET total_score == calculateTotalScore(newSolution)
         id == CHOOSE i \in SolutionIds : \A k \in 1..Len(solutions) : solutions[k].id # i
         data == SolutionRow(id, newSolution, total_score)
     IN solutions' = IF SolutionChecks(newSolution)
                       THEN SortByTotalScore(Append(solutions, data))
                       ELSE solutions
  /\ UNCHANGED <<dbProject, dbCounts, fmea_items, selectedProject, controlItems>>
  /\ repoFailure' = NoFailure
  /\ UNCHANGED notDashVars

\* ImprovePhase.deleteSolution
deleteSolution(id) ==
  /\ Mounted("IMPROVE")
  /\ \E k \in 1..Len(solutions) : solutions[k].id = id
  /\ solutions' = SelectSeq(solutions, LAMBDA s : s.id # id)
  /\ UNCHANGED <<dbProject, dbCounts, fmea_items, selectedProject, controlItems>>
  /\ repoFailure' = NoFailure
  /\ UNCHANGED notDashVars

\* ImprovePhase.updateStatus
updateStatus(id, status) ==
  /\ Mounted("IMPROVE")
  /\ \E k \in 1..Len(solutions) : solutions[k].id = id
  /\ solutions' = [k \in 1..Len(solutions) |->
                     IF solutions[k].id = id
                       THEN [solutions[k] EXCEPT !.status = status]
                       ELSE solutions[k]]
  /\ UNCHANGED <<dbProject, dbCounts, fmea_items, selectedProject, controlItems>>
  /\ repoFailure' = NoFailure
  /\ UNCHANGED notDashVars

\* ControlPhase: a checkbox of the checklist is ticked or cleared
setControlItems(name) ==
  /\ Mounted("CONTROL")
  /\ controlItems' = IF name \in controlItems THEN controlItems \ {name}
                     ELSE controlItems \cup {name}
  /\ UNCHANGED <<dbProject, dbCounts, fmea_items, solutions, selectedProject>>
  /\ repoFailure' = NoFailure
  /\ UNCHANGED notDashVars

\* canComplete with the checklist of CONTROL held to a threshold of three items
canComplete_mut(phase) ==
  CASE phase = "DEFINE"  -> /\ dbCounts.requirements > 0
                            /\ dbCounts.ctq_items > 0
                            /\ dbCounts.constraints > 0
    [] phase = "MEASURE" -> dbCounts.kpis >= 3
    [] phase = "ANALYZE" -> RowCount(fmea_items) >= 2
    [] phase = "IMPROVE" -> \E k \in 1..Len(solutions) :
                              solutions[k].status \in {"approved", "implemented"}
    [] phase = "CONTROL" -> Cardinality(controlItems) >= 3

\* the button of the mounted phase component is enabled
canComplete(phase) ==
  CASE phase = "DEFINE"  -> /\ dbCounts.requirements > 0
                            /\ dbCounts.ctq_items > 0
                            /\ dbCounts.constraints > 0
    [] phase = "MEASURE" -> dbCounts.kpis >= 3
    [] phase = "ANALYZE" -> RowCount(fmea_items) >= 2
    [] phase = "IMPROVE" -> \E k \in 1..Len(solutions) :
                              solutions[k].status \in {"approved", "implemented"}
    [] phase = "CONTROL" -> controlItems = ControlItemNames

\* advancePhase with the completion computed from the phase being left
advancePhase_mut(updateFails) ==
  /\ selectedProject.exists
  /\ selectedProject.current_phase \in {"DEFINE", "MEASURE", "ANALYZE", "IMPROVE"}
  /\ canComplete(selectedProject.current_phase)
  /\ LET currentPhaseIndex == PhaseIndex(selectedProject.current_phase) - 1
         nextIndex == currentPhaseIndex + 1
     IN IF nextIndex < Len(DMAIC)
        THEN /\ dbProject' = IF updateFails THEN dbProject
                             ELSE [dbProject EXCEPT
                                     !.current_phase = DMAIC[nextIndex + 1],
                                     !.phase_completion = (nextIndex * 100) \div Len(DMAIC)]
             /\ selectedProject' = Refreshed(dbProject')
             /\ repoFailure' = IF updateFails
                                 THEN Failure("projects.update", FALSE, TRUE)
                                 ELSE NoFailure
        ELSE /\ UNCHANGED <<dbProject, selectedProject>>
             /\ repoFailure' = NoFailure
  /\ UNCHANGED <<dbCounts, fmea_items, solutions, controlItems>>
  /\ UNCHANGED notDashVars

\* ProjectDetails.advancePhase, reached through onComplete of the mounted phase
\* component (ControlPhase is given onUpdate instead); the result of the update
\* is not read, and onUpdate is called whether or not it failed
advancePhase(updateFails) ==
  /\ selectedProject.exists
  /\ selectedProject.current_phase \in {"DEFINE", "MEASURE", "ANALYZE", "IMPROVE"}
  /\ canComplete(selectedProject.current_phase)
  /\ LET currentPhaseIndex == PhaseIndex(selectedProject.current_phase) - 1
         nextIndex == currentPhaseIndex + 1
     IN IF nextIndex < Len(DMAIC)
        THEN /\ dbProject' = IF updateFails THEN dbProject
                             ELSE [dbProject EXCEPT
                                     !.current_phase = DMAIC[nextIndex + 1],
                                     !.phase_completion = ((nextIndex + 1) * 100) \div Len(DMAIC)]
             /\ selectedProject' = Refreshed(dbProject')
             /\ repoFailure' = IF updateFails
                                 THEN Failure("projects.update", FALSE, TRUE)
                                 ELSE NoFailure
        ELSE /\ UNCHANGED <<dbProject, selectedProject>>
             /\ repoFailure' = NoFailure
  /\ UNCHANGED <<dbCounts, fmea_items, solutions, controlItems>>
  /\ UNCHANGED notDashVars

\* ControlPhase.markProjectComplete, its button enabled by allItemsComplete; the
\* result of the update is not read, and onComplete is called whether or not it
\* failed
markProjectComplete(updateFails) ==
  /\ Mounted("CONTROL")
  /\ canComplete("CONTROL")
  /\ dbProject' = IF updateFails THEN dbProject
                  ELSE [dbProject EXCEPT !.current_phase = "COMPLETED",
                                         !.phase_completion = 100,
                                         !.quality_score = 95]
  /\ selectedProject' = Refreshed(dbProject')
  /\ repoFailure' = IF updateFails THEN Failure("projects.update", FALSE, TRUE)
                    ELSE NoFailure
  /\ UNCHANGED <<dbCounts, fmea_items, solutions, controlItems>>
  /\ UNCHANGED notDashVars

InitJs ==
  /\ projects = [id \in ProjectIds |-> NoProject]
  /\ projectState = [id \in TsProjectIds |-> NoProject]
  /\ pending = {}
  /\ advanced = {}
  /\ gateProject = [artifacts |-> [define |-> NoDefineArtifacts,
                                    measure |-> NoMeasureArtifacts]]
  /\ gateEval = NoEval
  /\ prevEval = NoEval
  /\ clock = 0
  /\ dbProject = NoRow
  /\ dbCounts = [requirements |-> 0, ctq_items |-> 0, constraints |-> 0, kpis |-> 0]
  /\ fmea_items = [id \in FmeaIds |-> NoFmea]
  /\ solutions = <<>>
  /\ selectedProject = NoRow
  /\ controlItems = {}
  /\ repoFailure = NoFailure
  /\ lastCall = Call("none", 0, TRUE, "")

NextJs ==
  \/ \E id \in ProjectIds : createProject(id)
  \/ \E pid \in ProjectIds : definePhase(pid)
  \/ \E pid \in ProjectIds : measurePhase(pid)
  \/ \E pid \in ProjectIds, depth \in AnalysisDepths : analyzePhase(pid, depth)
  \/ \E pid \in ProjectIds, approach \in SolutionApproaches : improvePhase(pid, approach)
  \/ \E pid \in ProjectIds : controlPhase(pid)
  \/ \E pid \in ProjectIds : checkPhaseGate(pid)
  \/ \E pid \in ProjectIds : getProjectStatus(pid)

SpecJs == InitJs /\ [][NextJs]_vars

InitTs == InitJs

NextTs ==
  \/ \E id \in TsProjectIds, requirements \in SeqsUpTo(ReqKinds, MaxReqs),
        target \in DeploymentTargets : tsCreateProject(id, requirements, target)
  \/ \E pid \in TsProjectIds, caller \in Callers : tsDefinePhase(pid, caller)
  \/ \E pid \in TsProjectIds, caller \in Callers : tsMeasurePhase(pid, caller)
  \/ \E pid \in TsProjectIds, caller \in Callers : tsAnalyzePhase(pid, caller)
  \/ \E pid \in TsProjectIds, caller \in Callers : tsImprovePhaseBegin(pid, caller)
  \/ \E c \in pending : tsImprovePhaseResume(c)
  \/ \E pid \in TsProjectIds, caller \in Callers, withUrl \in BOOLEAN,
        deploymentValid \in BOOLEAN :
          tsControlPhaseBegin(pid, caller, withUrl, deploymentValid)
  \/ \E c \in pending : tsControlPhaseResume(c)
  \/ \E pid \in TsProjectIds : tsGetProjectStatus(pid)

SpecTs == InitTs /\ [][NextTs]_vars

InitGate == InitJs

NextGate ==
  \/ \E define \in DefineArtifactValues \cup {NoDefineArtifacts} :
        setDefineArtifacts(define)
  \/ \E measure \in MeasureArtifactValues \cup {NoMeasureArtifacts} :
        setMeasureArtifacts(measure)
  \/ \E fromPhase \in GatePhases, toPhase \in GatePhases : evaluateGate(fromPhase, toPhase)
  \/ Tick

SpecGate == InitGate /\ [][NextGate]_vars

InitDash == InitJs

NextDash ==
  \/ \E requirementLines \in 0..TableCaps.requirements, failure \in SubmitFailures :
        dashCreateProject(requirementLines, failure)
  \/ selectProject
  \/ addRequirement
  \/ addCTQ
  \/ addConstraint
  \/ deleteRequirement
  \/ deleteCtq
  \/ deleteConstraint
  \/ addKpi
  \/ deleteKpi
  \/ \E severity \in SeverityInputs, occurrence \in OccurrenceInputs,
        detection \in DetectionInputs : addFmea(severity, occurrence, detection)
  \/ \E id \in FmeaIds : deleteFmea(id)
  \/ \E newSolution \in SolutionInputs : addSolution(newSolution)
  \/ \E id \in SolutionIds : deleteSolution(id)
  \/ \E id \in SolutionIds, status \in SolutionStatuses :
        updateStatus(id, status)
  \/ \E name \in ControlItemNames : setControlItems(name)
  \/ \E updateFails \in BOOLEAN : advancePhase(updateFails)
  \/ \E updateFails \in BOOLEAN : markProjectComplete(updateFails)

SpecDash == InitDash /\ [][NextDash]_vars

(***************************************************************************)
(* Properties of six-sigma-server.js and src/index.ts                      *)
(***************************************************************************)
JsPhaseOps == {"define_phase", "measure_phase", "analyze_phase", "improve_phase",
               "control_phase"}

\* the operations of six-sigma-server.js whose code assigns current_phase
JsAdvanceOps == {"measure_phase", "analyze_phase", "improve_phase", "control_phase"}

\* a step of a tool call on a project that existed before the call
JsCallOn(pid, ops) ==
  /\ projects[pid].exists
  /\ lastCall'.pid = pid
  /\ lastCall'.op \in ops
  /\ <<projects, lastCall>>' # <<projects, lastCall>>

\* C1: every change of a project's current phase moves it to the immediate
\* successor in DEFINE -> MEASURE -> ANALYZE -> IMPROVE -> CONTROL -> COMPLETED;
\* no phase is skipped and the phase never moves backwards.
C1_PhaseMovesToSuccessor ==
  [][\A pid \in ProjectIds :
       (JsCallOn(pid, JsPhaseOps)
          /\ projects'[pid].current_phase # projects[pid].current_phase)
       => IsSuccessor(projects[pid].current_phase, projects'[pid].current_phase)]_vars

\* C2: an advancing call succeeds if and only if the gate of the project's current
\* phase, evaluated on the state at the time of the call, has passed = true.
C2_AdvanceIffGatePassed ==
  [][\A pid \in ProjectIds :
       (JsCallOn(pid, JsAdvanceOps) /\ projects[pid].current_phase # "COMPLETED")
       => (lastCall'.ok <=> PhaseGateResult(projects[pid]).passed)]_vars

C4_CompletedIsTerminal ==
  [][\A pid \in ProjectIds :
       (JsCallOn(pid, JsPhaseOps) /\ projects[pid].current_phase = "COMPLETED")
       => projects'[pid].current_phase = "COMPLETED"]_vars

\* C5: an advance whose gate is not satisfied leaves the project (phase, metrics,
\* stored artifacts, stored gate data) exactly as before the call.
C5_FailedAdvanceHasNoEffect ==
  [][(lastCall'.gate.evaluated /\ ~lastCall'.gate.passed
        /\ lastCall'.op \in JsPhaseOps)
     => projectState' = projectState]_vars

\* C6: a mutating call on a project whose current phase is COMPLETED fails and
\* leaves every field of the project unchanged.
C6_CompletedRejectsMutation ==
  [][\A pid \in ProjectIds :
       (JsCallOn(pid, JsPhaseOps) /\ projects[pid].current_phase = "COMPLETED")
       => (~lastCall'.ok /\ projects'[pid] = projects[pid])]_vars

\* C7: phase-completion is monotonically non-decreasing: no operation leaves it
\* lower than it was before the operation.
C7_CompletionNeverDecreases ==
  [][\A pid \in ProjectIds :
       JsCallOn(pid, JsPhaseOps)
       => projects'[pid].metrics.phase_completion
            >= projects[pid].metrics.phase_completion]_vars

\* the criteria lists of the five check*PhaseQualityGate functions of src/index.ts
TsGates ==
  {DefineCriteria, MeasureCriteria, AnalyzeCriteria, ImproveCriteria, ControlCriteria}

\* a project of six-sigma-server.js in phase ph with the criteria met marked true
JsProjectIn(ph, met) ==
  [NewProject EXCEPT !.current_phase = ph, !.gate_criteria[ph] = met]

\* the names evaluateGate of QualityGateManager reports as not passed
Unmet(result) ==
  {result.criteria_results[i].criterion :
     i \in {j \in 1..Len(result.criteria_results) : ~result.criteria_results[j].passed}}

\* C8: the gate is a hard AND: for every phase and every artifact snapshot the
\* verdict is passed exactly when every criterion of the phase holds, and the
\* criteria reported missing are exactly the ones that are false
\* (check*PhaseQualityGate of src/index.ts, checkPhaseGate of six-sigma-server.js,
\* QualityGateManager.evaluateGate).
C8_GateIsHardAnd ==
  /\ \A names \in TsGates : \A results \in [1..Len(names) -> BOOLEAN] :
        /\ Gate(names, results).passed <=> (\A i \in 1..Len(names) : results[i])
        /\ Gate(names, results).missing
             = {names[i] : i \in {j \in 1..Len(names) : ~results[j]}}
  /\ \A ph \in PhaseNames : \A met \in SUBSET phaseGates[ph] :
        /\ PhaseGateResult(JsProjectIn(ph, met)).passed <=> (met = phaseGates[ph])
        /\ PhaseGateResult(JsProjectIn(ph, met)).missing = phaseGates[ph] \ met
  /\ gateEval.key # "none" =>
        LET names == gatesCriteria[gateEval.key] IN
          /\ gateEval.passed <=>
               (\A i \in 1..Len(names) : Validator(names[i], gateProject))
          /\ Unmet(gateEval)
               = {names[i] : i \in {j \in 1..Len(names) :
                                        ~Validator(names[j], gateProject)}}

\* a gate of four criteria was evaluated with exactly one of them unmet
C8_Witness ==
  /\ gateEval.key = "DEFINE_TO_MEASURE"
  /\ gateEval.passed_count = 3
  /\ ~gateEval.passed
  /\ Cardinality(Unmet(gateEval)) = 1

\* C9: a gate evaluation changes nothing: phase, phase-completion, quality score,
\* risk level, artifacts and stored gate data are the same before and after it.
C9_GateCheckIsPure ==
  [][\A pid \in ProjectIds :
       (lastCall'.op = "check_phase_gate" /\ lastCall'.pid = pid)
       => projects'[pid] = projects[pid]]_vars

\* a gate was evaluated on a project that holds artifacts and met criteria
C9_Witness ==
  /\ lastCall.op = "check_phase_gate"
  /\ lastCall.gate.evaluated
  /\ \E pid \in ProjectIds :
       /\ lastCall.pid = pid
       /\ projects[pid].exists
       /\ projects[pid].artifacts.define
       /\ projects[pid].gate_criteria["DEFINE"] # {}

CannedFailureModes ==
  UNION {{conductFMEA(depth).failure_modes[i] :
            i \in 1..Len(conductFMEA(depth).failure_modes)} : depth \in AnalysisDepths}

\* C11: for every risk item in every reachable state, after any sequence of
\* creations and field changes, rpn equals severity x occurrence x detection of
\* the item's current field values and lies in [1,1000] (the rows of fmea_items
\* and the failure modes of conductFMEA).
C11_RpnIsProductInRange ==
  /\ \A item \in RowsOf(fmea_items) :
       /\ item.rpn = item.severity * item.occurrence * item.detection
       /\ item.rpn >= 1 /\ item.rpn <= 1000
  /\ \A fm \in CannedFailureModes :
       /\ fm.rpn = fm.severity * fm.occurrence * fm.detection
       /\ fm.rpn >= 1 /\ fm.rpn <= 1000

\* two risk items are stored, one of them with the largest RPN the inputs allow
C11_Witness ==
  /\ RowCount(fmea_items) = 2
  /\ \E item \in RowsOf(fmea_items) : item.rpn = 500
  /\ \E item \in RowsOf(fmea_items) : item.rpn = 150

\* C12: the project risk level is HIGH if and only if the average RPN over all
\* its risk items is > 300, MEDIUM if and only if 150 < average <= 300, and LOW
\* otherwise; a project with an empty risk-item list has risk level LOW
\* (six-sigma-server.js: the risk items are the failure modes of the stored
\* analysis).
C12_RiskLevelFollowsAverageRpn ==
  \A pid \in ProjectIds :
    projects[pid].exists =>
      LET depth == projects[pid].artifacts.analyze
          count == IF depth = "none" THEN 0 ELSE Len(conductFMEA(depth).failure_modes)
          total == IF depth = "none" THEN 0 ELSE conductFMEA(depth).total_rpn
      IN /\ (projects[pid].metrics.risk_level = "HIGH") <=> (count > 0 /\ total > 300 * count)
         /\ (projects[pid].metrics.risk_level = "MEDIUM")
              <=> (count > 0 /\ total > 150 * count /\ total <= 300 * count)
         /\ (projects[pid].metrics.risk_level = "LOW") <=> (count = 0 \/ total <= 150 * count)

\* C13: quality_score is within [0,100] in every reachable project state, i.e.
\* after any sequence of operations starting from createProject.
C13_QualityScoreInRange ==
  \A pid \in ProjectIds :
    projects[pid].exists =>
      /\ projects[pid].metrics.quality_score >= 0
      /\ projects[pid].metrics.quality_score <= 100

\* a completed project whose score was recomputed with the DEFINE criteria met and
\* the risk level set by an analysis: 40 + 7.5 + 20, rounded
C13_Witness ==
  \E pid \in ProjectIds :
    /\ projects[pid].exists
    /\ projects[pid].current_phase = "COMPLETED"
    /\ projects[pid].metrics.phase_completion = 100
    /\ projects[pid].metrics.risk_level = "MEDIUM"
    /\ projects[pid].metrics.quality_score = 68

\* C14: after every successful phase advance the stored quality score and the
\* stored risk level of the project equal the values freshly computed from its
\* state after the advance (calculateQualityScore of the project, and
\* calculateRiskLevel of its failure-mode analysis when it has one).
C14_AdvanceRefreshesMetrics ==
  [][\A pid \in ProjectIds :
       (JsCallOn(pid, JsAdvanceOps) /\ lastCall'.ok) =>
         LET project == projects'[pid] IN
         /\ project.metrics.quality_score = calculateQualityScore(project)
         /\ project.artifacts.analyze # "none" =>
              project.metrics.risk_level =
                calculateRiskLevel(conductFMEA(project.artifacts.analyze))]_vars

\* C15: a phase operation submitted for a phase other than the project's
\* current phase is rejected and stores no artifacts.
C15_WrongPhaseSubmissionRejected ==
  [][\A pid \in ProjectIds :
       LET op == lastCall'.op
           phaseOfOp == CASE op = "define_phase"  -> "DEFINE"
                          [] op = "measure_phase" -> "MEASURE"
                          [] op = "analyze_phase" -> "ANALYZE"
                          [] op = "improve_phase" -> "IMPROVE"
                          [] OTHER                -> "CONTROL"
       IN (JsCallOn(pid, JsPhaseOps) /\ phaseOfOp # projects[pid].current_phase) =>
            /\ ~lastCall'.ok
            /\ projects'[pid].artifacts = projects[pid].artifacts]_vars

\* C16: an accepted artifact submission that does not advance the phase
\* (define_phase) leaves the current phase, the phase completion, the quality
\* score and the risk level of the project unchanged.
C16_SubmissionChangesOnlyArtifacts ==
  [][\A pid \in ProjectIds :
       (JsCallOn(pid, {"define_phase"}) /\ lastCall'.ok) =>
         /\ projects'[pid].current_phase = projects[pid].current_phase
         /\ projects'[pid].metrics = projects[pid].metrics]_vars

\* C17: an operation on one project leaves every other project unchanged, and
\* creating a project leaves every existing project unchanged.
C17_ProjectsAreIndependent ==
  [][\A pid \in ProjectIds :
       (projects[pid].exists
          /\ (lastCall'.op = "create_project" \/ lastCall'.pid # pid)) =>
         projects'[pid] = projects[pid]]_vars

\* C18: after every successful phase advance to one of the five phases the
\* phase completion equals (index of the new phase + 1) / 5 x 100, the index
\* counted from 0 in DEFINE, MEASURE, ANALYZE, IMPROVE, CONTROL.
C18_CompletionFollowsNewPhaseIndex ==
  [][\A pid \in ProjectIds :
       (JsCallOn(pid, JsAdvanceOps) /\ lastCall'.ok
          /\ projects'[pid].current_phase # projects[pid].current_phase
          /\ projects'[pid].current_phase \in PhaseNames) =>
         projects'[pid].metrics.phase_completion * Len(DMAIC) =
           PhaseIndex(projects'[pid].current_phase) * 100]_vars

\* C19 (Scenario A as stated): a project in DEFINE with 3 requirements, 2
\* quality-target items and 1 constraint passes the gate of DEFINE, and
\* advancing it moves the phase to MEASURE with phase completion 20.
C19_ScenarioA_Completion20 ==
  [][(/\ dbProject.exists /\ dbProject.current_phase = "DEFINE"
      /\ Mounted("DEFINE")
      /\ dbCounts.requirements = 3 /\ dbCounts.ctq_items = 2
      /\ dbCounts.constraints = 1) =>
       /\ canComplete("DEFINE")
       /\ dbProject'.current_phase # dbProject.current_phase =>
            /\ dbProject'.current_phase = "MEASURE"
            /\ dbProject'.phase_completion = 20]_vars

\* C19 (amended): a project in DEFINE with 3 requirements, 2 quality-target
\* items and 1 constraint passes the gate of DEFINE, and advancing it moves the
\* phase to MEASURE with phase completion 40.
C19_ScenarioA_Completion40 ==
  [][(/\ dbProject.exists /\ dbProject.current_phase = "DEFINE"
      /\ Mounted("DEFINE")
      /\ dbCounts.requirements = 3 /\ dbCounts.ctq_items = 2
      /\ dbCounts.constraints = 1) =>
       /\ canComplete("DEFINE")
       /\ dbProject'.current_phase # dbProject.current_phase =>
            /\ dbProject'.current_phase = "MEASURE"
            /\ dbProject'.phase_completion = 40]_vars

\* the project of Scenario A after its advance out of DEFINE
C19_Witness ==
  /\ dbProject.exists /\ dbProject.current_phase = "MEASURE"
  /\ dbCounts.requirements = 3 /\ dbCounts.ctq_items = 2 /\ dbCounts.constraints = 1
  /\ dbCounts.kpis = 0
  /\ dbProject.phase_completion = 40

\* C20: a successful advance out of CONTROL sets the current phase to
\* COMPLETED (index.ts keeps no phase completion, so only the phase is stated).
C20_ControlAdvanceCompletes ==
  [][\A pid \in TsProjectIds :
       (/\ projectState[pid].exists
        /\ projectState[pid].current_phase = "CONTROL"
        /\ lastCall'.op = "control_phase" /\ lastCall'.pid = pid
        /\ lastCall'.gate.evaluated /\ lastCall'.gate.passed) =>
         projectState'[pid].current_phase = "COMPLETED"]_vars

C22_NewProjectDefaults ==
  [][\A pid \in ProjectIds :
       (lastCall'.op = "create_project" /\ lastCall'.pid = pid /\ lastCall'.ok
          /\ <<projects, lastCall>>' # <<projects, lastCall>>) =>
         /\ projects'[pid].exists
         /\ projects'[pid].current_phase = "DEFINE"
         /\ projects'[pid].metrics.phase_completion = 0
         /\ projects'[pid].metrics.quality_score = 0
         /\ projects'[pid].metrics.risk_level = "LOW"]_vars

\* C23: a submission with a numeric field outside its declared bound (severity,
\* occurrence or detection outside 1..10; a solution score outside 0..10) is
\* rejected and stores nothing: neither the tables nor the project row change.
C23_OutOfRangeStoresNothing ==
  [][/\ \A severity \in SeverityInputs, occurrence \in OccurrenceInputs,
           detection \in DetectionInputs :
          (addFmea(severity, occurrence, detection)
             /\ ~FmeaChecks(severity, occurrence, detection)) =>
            (fmea_items' = fmea_items /\ dbProject' = dbProject)
     /\ \A newSolution \in SolutionInputs :
          (addSolution(newSolution) /\ ~SolutionChecks(newSolution)) =>
            (solutions' = solutions /\ dbProject' = dbProject)]_vars

\* C26: after any sequence of solution additions the candidate list is ordered
\* by total score descending, and the candidate shown first (the recommended
\* one) has the maximum total score.
C26_SolutionsSortedDescending ==
  /\ \A i, j \in 1..Len(solutions) :
       i < j => solutions[i].total_score >= solutions[j].total_score
  /\ Len(solutions) > 0 =>
       \A k \in 1..Len(solutions) : solutions[1].total_score >= solutions[k].total_score

\* the solution added second scores higher and is listed first
C26_Witness ==
  /\ Len(solutions) = 2
  /\ solutions[1].id = 2 /\ solutions[2].id = 1
  /\ solutions[1].total_score > solutions[2].total_score

\* C27: every stored solution has its four scores in 0..10 and
\* total_score = impact x 2 - effort - risk - cost; impact 8, effort 4, risk 3,
\* cost 3 gives 6.
C27_TotalScoreFormula ==
  /\ \A k \in 1..Len(solutions) :
       LET s == solutions[k] IN
       /\ s.impact_score \in 0..10 /\ s.effort_score \in 0..10
       /\ s.risk_score \in 0..10 /\ s.cost_score \in 0..10
       /\ s.total_score = s.impact_score * 2 - s.effort_score - s.risk_score - s.cost_score
  /\ \A k \in 1..Len(solutions) :
       LET s == solutions[k] IN
       (s.impact_score = 8 /\ s.effort_score = 4 /\ s.risk_score = 3 /\ s.cost_score = 3)
         => s.total_score = 6

\* the solution of Scenario C is stored, next to one of another score
C27_Witness ==
  /\ \E k \in 1..Len(solutions) :
       /\ solutions[k].impact_score = 8 /\ solutions[k].effort_score = 4
       /\ solutions[k].risk_score = 3 /\ solutions[k].cost_score = 3
       /\ solutions[k].total_score = 6
  /\ \E k \in 1..Len(solutions) : solutions[k].total_score = -5

\* C28: in the Analyze panel, after each completed add or delete of a risk item
\* the stored risk level of the project equals the level computed (HIGH above an
\* average RPN of 300, MEDIUM above 150, else LOW) from the risk items as they
\* are after that add or delete.
C28_RiskLevelFollowsItemsAfterChange ==
  [][/\ \A severity \in SeverityInputs, occurrence \in OccurrenceInputs,
           detection \in DetectionInputs :
          addFmea(severity, occurrence, detection) =>
            dbProject'.risk_level = RiskLevelOf(fmea_items')
     /\ \A id \in FmeaIds :
          deleteFmea(id) => dbProject'.risk_level = RiskLevelOf(fmea_items')]_vars

\* C24: a repository call that fails during an operation is reported to the
\* caller: the handler shows the failure and does not go on to its success
\* callback as if the call had succeeded.
C24_RepositoryFailureIsReported ==
  repoFailure.call # "none" => (repoFailure.reported /\ ~repoFailure.onSuccess)

\* C25 as stated: the quality score an operation stores equals
\* 0.4 x phase_completion + 0.3 x (criteria met so far / total criteria so far
\* x 100) + 0.3 x risk_contribution, clamped to [0,100], with risk_contribution
\* 30 for LOW, 20 for MEDIUM and 10 for HIGH; "so far" counts the phases up to
\* the current one. Both sides are compared multiplied by 10 x total.
C25_QualityScoreWeightsRiskByThreeTenths ==
  [][\A pid \in ProjectIds :
       (/\ JsCallOn(pid, {"define_phase", "measure_phase", "improve_phase",
                          "control_phase"})
        /\ lastCall'.ok
        /\ projects'[pid].metrics.risk_level \in {"LOW", "MEDIUM", "HIGH"}) =>
         LET p     == projects'[pid]
             upTo  == IF p.current_phase = "COMPLETED" THEN Len(DMAIC)
                      ELSE PhaseIndex(p.current_phase)
             total == SumSeq([i \in 1..upTo |-> Cardinality(phaseGates[DMAIC[i]])])
             met   == SumSeq([i \in 1..upTo |-> Cardinality(p.gate_criteria[DMAIC[i]])])
             risk_contribution == CASE p.metrics.risk_level = "LOW"    -> 30
                                    [] p.metrics.risk_level = "MEDIUM" -> 20
                                    [] OTHER                           -> 10
             scaled == 4 * p.metrics.phase_completion * total + 300 * met
                       + 3 * risk_contribution * total
             clamped == IF scaled > 1000 * total THEN 1000 * total
                        ELSE IF scaled < 0 THEN 0 ELSE scaled
         IN p.metrics.quality_score * 10 * total = clamped]_vars

\* C25, amended: the quality score an operation stores equals
\* 0.4 x phase_completion + 30 x (criteria met / criteria of all five phases)
\* + risk_contribution, rounded to the nearest integer, with risk_contribution
\* 30 for LOW, 20 for MEDIUM and 10 for any other level; the sum lies in [0,100]
\* without clamping.
C25_QualityScoreAddsRiskInFull ==
  [][\A pid \in ProjectIds :
       (/\ JsCallOn(pid, {"define_phase", "measure_phase", "improve_phase",
                          "control_phase"})
        /\ lastCall'.ok) =>
         LET p     == projects'[pid]
             total == SumSeq([i \in 1..Len(DMAIC) |-> Cardinality(phaseGates[DMAIC[i]])])
             met   == SumSeq([i \in 1..Len(DMAIC) |->
                                Cardinality(p.gate_criteria[DMAIC[i]])])
             risk_contribution == CASE p.metrics.risk_level = "LOW"    -> 30
                                    [] p.metrics.risk_level = "MEDIUM" -> 20
                                    [] OTHER                           -> 10
             scaled == 4 * p.metrics.phase_completion * total + 300 * met
                       + 10 * risk_contribution * total
         IN /\ p.metrics.quality_score = (2 * scaled + 10 * total) \div (20 * total)
            /\ scaled >= 0 /\ scaled <= 1000 * total]_vars

\* improve_phase stored the score of a project of MEDIUM risk with the criteria
\* of DEFINE met: 0.4 x 80 + 30 x 4/16 + 20 = 59.5, stored as 60
C25_Witness ==
  /\ lastCall.op = "improve_phase" /\ lastCall.ok
  /\ \E pid \in ProjectIds :
       /\ lastCall.pid = pid
       /\ projects[pid].exists
       /\ projects[pid].metrics.risk_level = "MEDIUM"
       /\ projects[pid].metrics.phase_completion = 80
       /\ projects[pid].gate_criteria["DEFINE"] = phaseGates["DEFINE"]
       /\ projects[pid].metrics.quality_score = 60

\* C29: for every gate of QualityGateManager (DEFINE_TO_MEASURE,
\* MEASURE_TO_ANALYZE, ANALYZE_TO_IMPROVE, IMPROVE_TO_CONTROL,
\* CONTROL_TO_COMPLETE) and every combination of criterion outcomes, the verdict
\* of the 80% score threshold equals the logical AND of the gate's criteria; so
\* does the verdict of every gate result evaluateGate has returned.
C29_ThresholdEqualsAnd ==
  /\ \A gateKey \in DOMAIN gatesCriteria :
       LET names == gatesCriteria[gateKey] IN
       \A outcomes \in [1..Len(names) -> BOOLEAN] :
         LET criteriaResults == [i \in 1..Len(names) |->
                                   [criterion |-> names[i], passed |-> outcomes[i]]]
         IN QualityGateResult(gateKey, criteriaResults,
                              PassedCount(criteriaResults), clock).passed
              <=> (\A i \in 1..Len(names) : outcomes[i])
  /\ gateEval.key # "none" =>
       (gateEval.passed <=>
          \A i \in 1..Len(gateEval.criteria_results) : gateEval.criteria_results[i].passed)

\* a gate of three criteria was evaluated with two of them met: 66.7%, not passed
C29_Witness ==
  /\ gateEval.key = "MEASURE_TO_ANALYZE"
  /\ gateEval.passed_count = 2
  /\ Len(gateEval.criteria_results) = 3
  /\ ~gateEval.passed

\* C30: in six-sigma-server.js, in every reachable project state at most one
\* phase has phase_status IN_PROGRESS, and a phase is IN_PROGRESS only while it
\* is the current phase of the project.
C30_OnlyCurrentPhaseInProgress ==
  \A pid \in ProjectIds :
    projects[pid].exists =>
      LET inProgress == {ph \in PhaseNames :
                           projects[pid].phase_status[ph] = "IN_PROGRESS"}
      IN /\ Cardinality(inProgress) <= 1
         /\ \A ph \in inProgress : ph = projects[pid].current_phase

====
